---- MODULE Spec2Model ----
(***************************************************************************)
(* A model of kakaolink.KakaoLink (src/kakaolink/__init__.py): one         *)
(* KakaoLink instance shared by a few asyncio tasks, each of which calls   *)
(* init() or send() on it.  A coroutine runs without interruption between  *)
(* two awaits, so there is one action per await: the action resumes the    *)
(* task with the awaited answer (drawn from a small set), runs the code up *)
(* to the next await and leaves the task waiting there.                    *)
(*                                                                         *)
(* A session (a cookie mapping) is a number: EmptySession is the empty     *)
(* mapping, 1..MaxSession are cookie sets handed out by the server.        *)
(***************************************************************************)
EXTENDS Integers, Sequences, FiniteSets

VARIABLES
    _cookies,       \* self._cookies
    stored,         \* what the cookie storage holds (IKakaoLinkCookieStorage)
    locked,         \* self._send_lock: asyncio.Lock._locked
    waiters,        \* self._send_lock: asyncio.Lock._waiters, oldest first
    default_app_key,\* self.default_app_key
    default_origin, \* self.default_origin
    pc,             \* per task: the await the task is suspended at
    call,           \* per task: the method of its current or last call
    jar,            \* per task: the cookie jar of the call's httpx.AsyncClient
    authorized,     \* per task: init()'s local variable authorized
    saveArg,        \* per task: the argument init() handed to save()
    status,         \* per task: res.status_code of the last answer whose status the call read
    trace,          \* per task: what the call has asked of the outside, in order
    result,         \* per task: how the last call ended
    startedValid,   \* per task: whether _cookies was validated when send() took its client
    validated,      \* sessions a completed init() saw reported VALID
    ncalls,         \* number of calls made so far
    app_key,        \* per task: send()'s local app_key once the default is applied
    origin,         \* per task: send()'s local origin once the default is applied
    codes,          \* per task: the code and status fields of the JSON answers the call read
    picker_payload, \* per task: send()'s local picker_data
    picker_send,    \* per task: the arguments of the _picker_send call under way
    nfetch,         \* number of picker payloads the server has handed out
    query,          \* the arguments of a _picker_data_search call made on its own
    answer          \* what that call answered

vars == <<_cookies, stored, locked, waiters, default_app_key, default_origin,
          pc, call, jar, authorized, saveArg, status, trace, result,
          startedValid, validated, ncalls, app_key, origin, codes, picker_payload,
          picker_send, nfetch, query, answer>>

shared == <<_cookies, stored, locked, waiters, validated>>
\* What no step of init() or send() changes.
fixed == <<default_app_key, default_origin, query, answer>>
\* What only the call itself sets.
called == <<call, app_key, origin>>

(***************************************************************************)
(* Bounds                                                                  *)
(***************************************************************************)
NumTasks == 2
MaxCalls == 2
MaxSession == 2
MaxListLen == 2

Tasks == 1..NumTasks
EmptySession == 0
Sessions == EmptySession..MaxSession

(***************************************************************************)
(* Values                                                                  *)
(***************************************************************************)
\* Python's None and "" are the falsy values an app key or origin can take.
KeyValues == {"None", "", "k"}
Falsy(x) == x \in {"None", ""}
\* `a or b`
PyOr(a, b) == IF Falsy(a) THEN b ELSE a

HttpOps == {"users/me", "auth/tgt", "e.kakao.com", "picker/link", "fa/main.html",
            "confirm_token.json", "poll_from_service.json", "continue_url",
            "picker/send"}

\* The HTTP requests among the entries of a trace.
IsHttp(e) == e \in HttpOps
Requests(tr) == SelectSeq(tr, IsHttp)

(***************************************************************************)
(* Answers of the outside world                                            *)
(***************************************************************************)
\* GET /api/v1/users/me: the value of result.status, "absent" when the body has none.
ProbeResults == {"VALID", "INVALID", "absent"}
\* POST /v1/auth/tgt: the code field and whether a token field came with it.
TgtResponses == {[code |-> 0, token |-> TRUE], [code |-> 0, token |-> FALSE],
                 [code |-> -1, token |-> FALSE]}
\* GET https://e.kakao.com with the ka-tgt header (redirects are not followed).
SubmitStatuses == {200, 302, 500}
\* POST /picker/send
SendStatuses == {200, 400, 403, 500}
\* The status field of the two step-up JSON answers.
TfaStatuses == {0, -1}
\* The step-up page: whether its __NEXT_DATA__ block parses and holds the three values.
TfaHtmls == {"ok", "malformed"}
\* fa/main.html: "malformed" has no csrf-token meta tag or no parsable options block,
\* "nokeys" parses but its options lack client_id or additionalAuthToken.
FaMainPages == {"ok", "malformed", "nokeys"}

(***************************************************************************)
(* Recipient records and picker payloads                                   *)
(***************************************************************************)
\* A string is a sequence of characters; a record is a dict: keys says which
\* of the three entries it has.
NoReceiver == [keys |-> {}, chat_room_type |-> "", title |-> <<>>, profile_nickname |-> <<>>]
Chat(title, type) ==
    [keys |-> {"title", "chat_room_type"}, chat_room_type |-> type,
     title |-> title, profile_nickname |-> <<>>]
Friend(nick) ==
    [keys |-> {"profile_nickname"}, chat_room_type |-> "",
     title |-> <<>>, profile_nickname |-> nick]

\* receiver.get(k, default)
DictGet(r, k, default) == IF k \in r.keys THEN r[k] ELSE default

\* `name in title` for strings
IsSubstring(name, title) ==
    \E i \in 0..(Len(title) - Len(name)) : SubSeq(title, i + 1, i + Len(name)) = name

\* receiver.get("title") or receiver.get("profile_nickname", "")
CurrentTitle(r) ==
    IF DictGet(r, "title", <<>>) # <<>> THEN r.title
    ELSE DictGet(r, "profile_nickname", <<>>)

\* The room-type rule: a record with a chat room type other than the wanted one is skipped.
SkippedByRoomTypeUntagged(r, search_room_type) ==
    /\ search_room_type # "ALL"
    /\ search_room_type # DictGet(r, "chat_room_type", "")
SkippedByRoomType(r, search_room_type) ==
    LET current_chat_type == DictGet(r, "chat_room_type", "")
    IN  /\ current_chat_type # ""
        /\ search_room_type # "ALL"
        /\ search_room_type # current_chat_type

TitleMatchesSubstringAlways(r, receiver_name, search_exact) ==
    IsSubstring(receiver_name, CurrentTitle(r))
TitleMatches(r, receiver_name, search_exact) ==
    IF search_exact THEN CurrentTitle(r) = receiver_name
    ELSE IsSubstring(receiver_name, CurrentTitle(r))

\* The list the for loop runs over.
CandidatesFriendsFirst(picker_data, search_from) ==
    (IF search_from \in {"ALL", "FRIENDS"} THEN picker_data.friends ELSE <<>>)
    \o (IF search_from \in {"ALL", "CHATROOMS"} THEN picker_data.chats ELSE <<>>)
Candidates(picker_data, search_from) ==
    (IF search_from \in {"ALL", "CHATROOMS"} THEN picker_data.chats ELSE <<>>)
    \o (IF search_from \in {"ALL", "FRIENDS"} THEN picker_data.friends ELSE <<>>)

RECURSIVE SearchLoop(_, _, _, _)
SearchLoop(rest, receiver_name, search_exact, search_room_type) ==
    IF rest = <<>> THEN [found |-> FALSE, receiver |-> NoReceiver]
    ELSE IF /\ ~SkippedByRoomType(Head(rest), search_room_type)
            /\ TitleMatches(Head(rest), receiver_name, search_exact)
         THEN [found |-> TRUE, receiver |-> Head(rest)]
         ELSE SearchLoop(Tail(rest), receiver_name, search_exact, search_room_type)

\* _picker_data_search: found is FALSE where the code raises
\* KakaoLinkReceiverNotFoundExcepetion.
PickerDataSearchAlwaysFound(receiver_name, picker_data, search_exact, search_from, search_room_type) ==
    [found |-> TRUE, receiver |-> NoReceiver]
PickerDataSearch(receiver_name, picker_data, search_exact, search_from, search_room_type) ==
    SearchLoop(Candidates(picker_data, search_from), receiver_name, search_exact,
               search_room_type)

\* The payloads the picker answers with in the model.
Payloads ==
    { [chats |-> <<>>, friends |-> <<>>],
      [chats |-> <<Chat(<<"a">>, "MultiChat")>>, friends |-> <<Friend(<<"a", "b">>)>>] }
\* The arguments of send() that the search reads.
SearchNames == {<<"a">>, <<"b">>}
SearchFroms == {"ALL", "FRIENDS", "CHATROOMS"}
\* send() is called with the defaults of search_from and search_room_type; a
\* search on its own (SpecSearch) is made with every value of them.
DefaultSearchFrom == "ALL"
DefaultSearchRoomType == "ALL"

\* The records and lists a search made on its own is given: chat records with and
\* without a room type, a record whose title is the empty string next to a
\* nickname, friend records (which carry no room type), and a record with no
\* entry at all.
ChatRecords ==
    { Chat(<<"a">>, "MultiChat"), Chat(<<"a", "b">>, "DirectChat"),
      [keys |-> {"title"}, chat_room_type |-> "", title |-> <<"b">>,
       profile_nickname |-> <<>>],
      [keys |-> {"title", "chat_room_type", "profile_nickname"},
       chat_room_type |-> "DirectChat", title |-> <<>>, profile_nickname |-> <<"b">>] }
FriendRecords ==
    { Friend(<<"a">>), Friend(<<"A", "b">>), NoReceiver,
      [keys |-> {"title", "profile_nickname"}, chat_room_type |-> "",
       title |-> <<>>, profile_nickname |-> <<"b">>] }
ListsOf(records) ==
    UNION { [1..n -> records] : n \in 0..MaxListLen }
QueryNames == {<<"a">>, <<"b">>, <<"a", "b">>}
QueryRoomTypes == {"ALL", "DirectChat", "MultiChat"}
Queries ==
    [receiver_name : QueryNames,
     picker_data : [chats : ListsOf(ChatRecords), friends : ListsOf(FriendRecords)],
     search_exact : BOOLEAN, search_from : SearchFroms,
     search_room_type : QueryRoomTypes]
\* No search has been asked on its own, and none has answered.
NoQuery ==
    [receiver_name |-> <<>>, picker_data |-> [chats |-> <<>>, friends |-> <<>>],
     search_exact |-> FALSE, search_from |-> "ALL", search_room_type |-> "ALL"]
NoAnswer == [done |-> FALSE, found |-> FALSE, receiver |-> NoReceiver]

\* The body of the picker page: whether the marker is in it, whether the blob after
\* it decodes as base64, whether the decoded bytes parse as JSON, whether the JSON
\* has a data entry, and that entry.
PickerText(marker, b64, js, hasData, data) ==
    [marker |-> marker, b64 |-> b64, json |-> js, hasData |-> hasData, data |-> data]
PickerTexts ==
    { PickerText(FALSE, FALSE, FALSE, FALSE, [chats |-> <<>>, friends |-> <<>>]),
      PickerText(TRUE, FALSE, FALSE, FALSE, [chats |-> <<>>, friends |-> <<>>]),
      PickerText(TRUE, TRUE, FALSE, FALSE, [chats |-> <<>>, friends |-> <<>>]),
      PickerText(TRUE, TRUE, TRUE, FALSE, [chats |-> <<>>, friends |-> <<>>]) }
    \cup { PickerText(TRUE, TRUE, TRUE, TRUE, p) : p \in Payloads }

\* The return expression of _get_picker_data, step by step; exc names what it raises.
PickerDecode(text) ==
    IF ~text.marker THEN [exc |-> "IndexError", data |-> text.data]        \* split(...)[1]
    ELSE IF ~text.b64 THEN [exc |-> "binascii.Error", data |-> text.data]  \* urlsafe_b64decode
    ELSE IF ~text.json THEN [exc |-> "JSONDecodeError", data |-> text.data]\* json.loads
    ELSE IF ~text.hasData THEN [exc |-> "KeyError", data |-> text.data]    \* [...]["data"]
    ELSE [exc |-> "none", data |-> text.data]

\* The values the server puts in a payload are fresh with every payload: the k-th
\* payload handed out carries these three next to its lists.
ServerData(p, k) ==
    [chats |-> p.chats, friends |-> p.friends, shortKey |-> <<"shortKey", k>>,
     checksum |-> <<"checksum", k>>, csrfToken |-> <<"csrfToken", k>>]
\* The picker page that carries the k-th payload.
Served(text, k) == [text EXCEPT !.data = ServerData(@, k)]
\* picker_data before _get_picker_data has returned.
NoPayload ==
    [chats |-> <<>>, friends |-> <<>>, shortKey |-> <<>>, checksum |-> <<>>,
     csrfToken |-> <<>>]

\* send: what it hands to _picker_send, out of picker_data and the receiver found.
PickerSendArgsOldChecksum(data, receiver) ==
    [short_key |-> data.shortKey, checksum |-> <<"checksum", data.checksum[2] - 1>>,
     csrf |-> data.csrfToken, receiver |-> receiver]
PickerSendArgs(data, receiver) ==
    [short_key |-> data.shortKey, checksum |-> data.checksum,
     csrf |-> data.csrfToken, receiver |-> receiver]
\* No _picker_send call is under way.
NoRequest ==
    [short_key |-> <<>>, checksum |-> <<>>, csrf |-> <<>>, receiver |-> NoReceiver]

(***************************************************************************)
(* The conditions of the code                                              *)
(***************************************************************************)
\* _check_authorized: result.get("status") == "VALID"
CheckAuthorized(r) == r = "VALID"
\* init: `if authorized: return`
FastPathDropped(a) == FALSE
FastPath(a) == a
\* init: `if not authorized: raise KakaoLinkLoginExcepetion()`
LoginRejectedDropped(a) == FALSE
LoginRejected(a) == ~a
\* _get_tgt_token: res_json.get("code") != 0
TgtFailedNever(code) == FALSE
TgtFailed(code) == code # 0
\* _submit_tgt_token: res.raise_for_status() raises unless the status is 2xx
RaisesForStatus(st) == st < 200 \/ st >= 300
\* _picker_send: res.status_code == 400
SendRejectedOnAnyError(st) == st >= 400
SendRejected(st) == st = 400
\* _solve_two_factor_auth, _confirm_token: status != 0
TfaRejectedNever(st) == FALSE
TfaRejected(st) == st # 0
\* send: `if not app_key or not origin`
ConfigMissingOriginUnchecked(key, org) == Falsy(key)
ConfigMissing(key, org) == Falsy(key) \/ Falsy(org)
\* asyncio.Lock.acquire takes the lock at once only when it is free and nobody waits.
LockFreeUnchecked == TRUE
LockFree == ~locked /\ waiters = <<>>
\* send: httpx.AsyncClient(cookies=self._cookies)
ClientCookiesFresh == EmptySession
ClientCookies == _cookies
\* init: dict(client.cookies)
Snapshot(j) == j

(***************************************************************************)
(* The state after KakaoLink(...) is constructed                           *)
(***************************************************************************)
\* No call is under way and none has been made.
AtRest ==
    /\ locked = FALSE
    /\ waiters = <<>>
    /\ pc = [t \in Tasks |-> "idle"]
    /\ call = [t \in Tasks |-> "none"]
    /\ jar = [t \in Tasks |-> EmptySession]
    /\ authorized = [t \in Tasks |-> FALSE]
    /\ saveArg = [t \in Tasks |-> EmptySession]
    /\ status = [t \in Tasks |-> 0]
    /\ trace = [t \in Tasks |-> <<>>]
    /\ result = [t \in Tasks |-> "none"]
    /\ startedValid = [t \in Tasks |-> FALSE]
    /\ validated = {}
    /\ ncalls = 0
    /\ app_key = [t \in Tasks |-> "None"]
    /\ origin = [t \in Tasks |-> "None"]
    /\ codes = [t \in Tasks |-> <<>>]
    /\ picker_payload = [t \in Tasks |-> NoPayload]
    /\ picker_send = [t \in Tasks |-> NoRequest]
    /\ nfetch = 0

Init ==
    /\ _cookies = EmptySession
    /\ stored \in {EmptySession, 1}
    /\ \E d \in {<<"None", "None">>, <<"k", "k">>} :
           default_app_key = d[1] /\ default_origin = d[2]
    /\ AtRest
    /\ query = NoQuery
    /\ answer = NoAnswer

(***************************************************************************)
(* Pieces of an action                                                     *)
(***************************************************************************)
\* A task at rest starts a call.  The tasks are interchangeable: they are numbered
\* in the order in which they make their first call.
Begin(t, method) ==
    /\ pc[t] = "idle"
    /\ \A u \in 1..(t - 1) : call[u] # "none"
    /\ ncalls < MaxCalls
    /\ ncalls' = ncalls + 1
    /\ call' = [call EXCEPT ![t] = method]
    /\ authorized' = [authorized EXCEPT ![t] = FALSE]
    /\ status' = [status EXCEPT ![t] = 0]
    /\ codes' = [codes EXCEPT ![t] = <<>>]

\* The call asks `op` of the outside and is suspended at `at`.
Ask(t, op, at) ==
    /\ trace' = [trace EXCEPT ![t] = Append(@, op)]
    /\ pc' = [pc EXCEPT ![t] = at]
    /\ UNCHANGED result

\* The same, the client and the other locals of the call being left as they are.
Await(t, op, at) ==
    /\ Ask(t, op, at)
    /\ UNCHANGED <<jar, saveArg, startedValid, picker_payload, picker_send>>

\* The call ends: it returns ("ok") or raises `how`.  Its client is closed and
\* its locals are gone.
End(t, how) ==
    /\ pc' = [pc EXCEPT ![t] = "idle"]
    /\ result' = [result EXCEPT ![t] = how]
    /\ jar' = [jar EXCEPT ![t] = EmptySession]
    /\ saveArg' = [saveArg EXCEPT ![t] = EmptySession]
    /\ startedValid' = [startedValid EXCEPT ![t] = FALSE]
    /\ picker_payload' = [picker_payload EXCEPT ![t] = NoPayload]
    /\ picker_send' = [picker_send EXCEPT ![t] = NoRequest]
    /\ UNCHANGED trace

(***************************************************************************)
(* init()                                                                  *)
(***************************************************************************)
\* init() is called: it asks the token provider for an access token first.
InitCall(t) ==
    /\ Begin(t, "init")
    /\ pc' = [pc EXCEPT ![t] = "i_token"]
    /\ trace' = [trace EXCEPT ![t] = <<"get_access_token">>]
    /\ result' = [result EXCEPT ![t] = "none"]
    /\ app_key' = [app_key EXCEPT ![t] = "None"]
    /\ origin' = [origin EXCEPT ![t] = "None"]
    /\ UNCHANGED <<shared, fixed, jar, saveArg, startedValid, picker_payload,
                   picker_send, nfetch>>

\* get_access_token() returns or raises; init() then asks the storage for the cookies.
TokenReturn(t) ==
    /\ pc[t] = "i_token"
    /\ \/ Await(t, "load", "i_load")
       \/ End(t, "ProviderError")
    /\ UNCHANGED <<shared, fixed, called, authorized, status, ncalls, codes, nfetch>>

\* load() returns: the cookies become the session in memory and the client's jar,
\* and the first probe is sent.
LoadReturn(t) ==
    /\ pc[t] = "i_load"
    /\ _cookies' = stored
    /\ jar' = [jar EXCEPT ![t] = stored]
    /\ Ask(t, "users/me", "i_probe1")
    /\ UNCHANGED <<stored, locked, waiters, validated, fixed, called, authorized,
                   saveArg, status, startedValid, ncalls, codes, picker_payload,
                   picker_send, nfetch>>

\* The first probe answers: init() returns when the session is authorized, and
\* exchanges the access token otherwise.
Probe1Return(t) ==
    /\ pc[t] = "i_probe1"
    /\ \/ /\ End(t, "TransportError")
          /\ UNCHANGED <<authorized, validated>>
       \/ \E r \in ProbeResults :
            /\ authorized' = [authorized EXCEPT ![t] = CheckAuthorized(r)]
            /\ IF FastPath(CheckAuthorized(r))
               THEN End(t, "ok") /\ validated' = validated \cup {jar[t]}
               ELSE Await(t, "auth/tgt", "i_tgt") /\ UNCHANGED validated
    /\ UNCHANGED <<_cookies, stored, locked, waiters, fixed, called, status, ncalls,
                   codes, nfetch>>

\* The token exchange answers: a non-zero code is a login failure, otherwise the
\* ticket-granting token is submitted.
TgtReturn(t) ==
    /\ pc[t] = "i_tgt"
    /\ \/ End(t, "TransportError") /\ UNCHANGED codes
       \/ \E resp \in TgtResponses :
            /\ codes' = [codes EXCEPT ![t] = Append(@, resp.code)]
            /\ IF TgtFailed(resp.code) THEN End(t, "KakaoLinkLoginExcepetion")
               ELSE IF ~resp.token THEN End(t, "KeyError")
               ELSE Await(t, "e.kakao.com", "i_submit")
    /\ UNCHANGED <<shared, fixed, called, authorized, status, ncalls, nfetch>>

\* The sessions that the state holds somewhere.
SessionsInUse ==
    {_cookies, stored} \cup validated
    \cup { jar[u] : u \in Tasks } \cup { saveArg[u] : u \in Tasks }
\* The cookie sets the server may hand out: one that is in use, or a new one.  The
\* new ones are interchangeable: they are numbered in the order in which they
\* come into use.
IssuableSessions ==
    { c \in Sessions \ {EmptySession} : \E s \in SessionsInUse : c <= s + 1 }

\* The ticket submission answers; the answer may set cookies in the client's jar.
\* raise_for_status() ends init() on a non-2xx status, otherwise the probe is re-run.
SubmitReturn(t) ==
    /\ pc[t] = "i_submit"
    /\ \/ End(t, "TransportError") /\ UNCHANGED status
       \/ \E st \in SubmitStatuses, c \in {jar[t]} \cup IssuableSessions :
            /\ status' = [status EXCEPT ![t] = st]
            /\ IF RaisesForStatus(st) THEN End(t, "HTTPStatusError")
               ELSE /\ jar' = [jar EXCEPT ![t] = c]
                    /\ Ask(t, "users/me", "i_probe2")
                    /\ UNCHANGED <<saveArg, startedValid, picker_payload, picker_send>>
    /\ UNCHANGED <<shared, fixed, called, authorized, ncalls, codes, nfetch>>

\* The second probe answers: still unauthorized is a login failure; otherwise the
\* jar is snapshotted into memory and handed to save().
Probe2Return(t) ==
    /\ pc[t] = "i_probe2"
    /\ \/ /\ End(t, "TransportError")
          /\ UNCHANGED <<authorized, _cookies>>
       \/ \E r \in ProbeResults :
            /\ authorized' = [authorized EXCEPT ![t] = CheckAuthorized(r)]
            /\ IF LoginRejected(CheckAuthorized(r))
               THEN /\ End(t, "KakaoLinkLoginExcepetion")
                    /\ UNCHANGED _cookies
               ELSE /\ _cookies' = Snapshot(jar[t])
                    /\ saveArg' = [saveArg EXCEPT ![t] = _cookies']
                    /\ Ask(t, "save", "i_save")
                    /\ UNCHANGED <<jar, startedValid, picker_payload, picker_send>>
    /\ UNCHANGED <<stored, locked, waiters, validated, fixed, called, status, ncalls,
                   codes, nfetch>>

\* save() returns, having stored its argument: init() returns.
SaveReturn(t) ==
    /\ pc[t] = "i_save"
    /\ stored' = saveArg[t]
    /\ validated' = validated \cup {jar[t]}
    /\ End(t, "ok")
    /\ UNCHANGED <<_cookies, locked, waiters, fixed, called, authorized, status,
                   ncalls, codes, nfetch>>

(***************************************************************************)
(* send()                                                                  *)
(***************************************************************************)
\* asyncio.Lock.release
ReleaseForgotten == UNCHANGED <<locked, waiters>>
Release ==
    /\ locked' = FALSE
    /\ UNCHANGED waiters

\* With the lock held, send() makes its client from the session in memory and
\* posts the link-validation request.
StartFetch(t) ==
    /\ jar' = [jar EXCEPT ![t] = ClientCookies]
    /\ startedValid' = [startedValid EXCEPT ![t] = _cookies \in validated]
    /\ trace' = [trace EXCEPT ![t] = <<"picker/link">>]
    /\ pc' = [pc EXCEPT ![t] = "s_link"]
    /\ UNCHANGED <<saveArg, picker_payload, picker_send>>

\* send() is called: without an app key or an origin it raises at once; otherwise
\* it takes the lock, or queues for it.
SendCall(t) ==
    /\ Begin(t, "send")
    /\ \E ak \in KeyValues, og \in KeyValues :
         /\ app_key' = [app_key EXCEPT ![t] = PyOr(ak, default_app_key)]
         /\ origin' = [origin EXCEPT ![t] = PyOr(og, default_origin)]
         /\ IF ConfigMissing(app_key'[t], origin'[t])
            THEN /\ pc' = [pc EXCEPT ![t] = "idle"]
                 /\ result' = [result EXCEPT ![t] = "KakaoLinkException"]
                 /\ trace' = [trace EXCEPT ![t] = <<>>]
                 /\ UNCHANGED <<locked, waiters, jar, saveArg, startedValid,
                                picker_payload, picker_send>>
            ELSE IF LockFree
            THEN /\ locked' = TRUE
                 /\ UNCHANGED waiters
                 /\ result' = [result EXCEPT ![t] = "none"]
                 /\ StartFetch(t)
            ELSE /\ waiters' = Append(waiters, t)
                 /\ pc' = [pc EXCEPT ![t] = "s_wait"]
                 /\ result' = [result EXCEPT ![t] = "none"]
                 /\ trace' = [trace EXCEPT ![t] = <<>>]
                 /\ UNCHANGED <<locked, jar, saveArg, startedValid, picker_payload,
                                picker_send>>
    /\ UNCHANGED <<_cookies, stored, validated, fixed, nfetch>>

\* The oldest waiter is woken by a release and takes the lock.
LockWake(t) ==
    /\ pc[t] = "s_wait"
    /\ ~locked
    /\ waiters # <<>> /\ Head(waiters) = t
    /\ waiters' = Tail(waiters)
    /\ locked' = TRUE
    /\ StartFetch(t)
    /\ UNCHANGED <<_cookies, stored, validated, fixed, called, authorized, status,
                   result, ncalls, codes, nfetch>>

\* From the picker page to the send request: decode the payload, search the
\* receiver, post the send request.  The search arguments were given to send();
\* nothing reads them before this point.
DecodeSearchSend(t, text) ==
    LET d == PickerDecode(text)
    IN  IF d.exc # "none" THEN End(t, d.exc) /\ Release /\ UNCHANGED nfetch
        ELSE /\ nfetch' = nfetch + 1
             /\ \E receiver_name \in SearchNames, search_exact \in BOOLEAN :
                  LET found == PickerDataSearch(receiver_name, d.data, search_exact,
                                                DefaultSearchFrom,
                                                DefaultSearchRoomType)
                  IN  IF found.found
                      THEN /\ picker_payload' = [picker_payload EXCEPT ![t] = d.data]
                           /\ picker_send' =
                                [picker_send EXCEPT
                                    ![t] = PickerSendArgs(d.data, found.receiver)]
                           /\ Ask(t, "picker/send", "s_send")
                           /\ UNCHANGED <<jar, saveArg, startedValid, locked, waiters>>
                      ELSE End(t, "KakaoLinkReceiverNotFoundExcepetion") /\ Release

\* The link-validation request answers: with the picker page, or with the step-up
\* page, whose embedded data is parsed before the confirmation page is fetched.
LinkReturn(t) ==
    /\ pc[t] = "s_link"
    /\ \/ End(t, "TransportError") /\ Release /\ UNCHANGED nfetch
       \/ \E html \in TfaHtmls :
            /\ IF html = "malformed" THEN End(t, "KakaoLink2FAExcepetion") /\ Release
               ELSE Await(t, "fa/main.html", "s_fa_main") /\ UNCHANGED <<locked, waiters>>
            /\ UNCHANGED nfetch
       \/ \E text \in PickerTexts : DecodeSearchSend(t, Served(text, nfetch + 1))
    /\ UNCHANGED <<_cookies, stored, validated, fixed, called, authorized, status,
                   ncalls, codes>>

\* _confirm_token: the confirmation page answers and is parsed, the token is confirmed.
FaMainReturn(t) ==
    /\ pc[t] = "s_fa_main"
    /\ \/ End(t, "TransportError") /\ Release
       \/ \E page \in FaMainPages :
            IF page = "malformed" THEN End(t, "KakaoLink2FAExcepetion") /\ Release
            ELSE IF page = "nokeys" THEN End(t, "KeyError") /\ Release
            ELSE Await(t, "confirm_token.json", "s_confirm")
                 /\ UNCHANGED <<locked, waiters>>
    /\ UNCHANGED <<_cookies, stored, validated, fixed, called, authorized, status,
                   ncalls, codes, nfetch>>

\* _confirm_token: the confirmation answers; then the status endpoint is polled.
ConfirmReturn(t) ==
    /\ pc[t] = "s_confirm"
    /\ \/ End(t, "TransportError") /\ Release /\ UNCHANGED codes
       \/ \E st \in TfaStatuses :
            /\ codes' = [codes EXCEPT ![t] = Append(@, st)]
            /\ IF TfaRejected(st) THEN End(t, "KakaoLink2FAExcepetion") /\ Release
               ELSE Await(t, "poll_from_service.json", "s_poll")
                    /\ UNCHANGED <<locked, waiters>>
    /\ UNCHANGED <<_cookies, stored, validated, fixed, called, authorized, status,
                   ncalls, nfetch>>

\* _solve_two_factor_auth: the poll answers; then the continuation URL is fetched.
PollReturn(t) ==
    /\ pc[t] = "s_poll"
    /\ \/ End(t, "TransportError") /\ Release /\ UNCHANGED codes
       \/ \E st \in TfaStatuses :
            /\ codes' = [codes EXCEPT ![t] = Append(@, st)]
            /\ IF TfaRejected(st) THEN End(t, "KakaoLink2FAExcepetion") /\ Release
               ELSE Await(t, "continue_url", "s_continue")
                    /\ UNCHANGED <<locked, waiters>>
    /\ UNCHANGED <<_cookies, stored, validated, fixed, called, authorized, status,
                   ncalls, nfetch>>

\* The continuation request answers with the picker page.
ContinueReturn(t) ==
    /\ pc[t] = "s_continue"
    /\ \/ End(t, "TransportError") /\ Release /\ UNCHANGED nfetch
       \/ \E text \in PickerTexts : DecodeSearchSend(t, Served(text, nfetch + 1))
    /\ UNCHANGED <<_cookies, stored, validated, fixed, called, authorized, status,
                   ncalls, codes>>

\* _picker_send: the send request answers; only a 400 is an error.
SendReturn(t) ==
    /\ pc[t] = "s_send"
    /\ \/ End(t, "TransportError") /\ UNCHANGED status
       \/ \E st \in SendStatuses :
            /\ status' = [status EXCEPT ![t] = st]
            /\ IF SendRejected(st) THEN End(t, "KakaoLinkSendExcepetion")
               ELSE End(t, "ok")
    /\ Release
    /\ UNCHANGED <<_cookies, stored, validated, fixed, called, authorized, ncalls,
                   codes, nfetch>>

(***************************************************************************)
(* The specification                                                       *)
(***************************************************************************)
Next ==
    \E t \in Tasks :
        \/ InitCall(t)
        \/ TokenReturn(t)
        \/ LoadReturn(t)
        \/ Probe1Return(t)
        \/ TgtReturn(t)
        \/ SubmitReturn(t)
        \/ Probe2Return(t)
        \/ SaveReturn(t)
        \/ SendCall(t)
        \/ LockWake(t)
        \/ LinkReturn(t)
        \/ FaMainReturn(t)
        \/ ConfirmReturn(t)
        \/ PollReturn(t)
        \/ ContinueReturn(t)
        \/ SendReturn(t)

Spec == Init /\ [][Next]_vars

\* The same, every request of a send() being answered in the end (or failing in
\* the end), and the event loop running in the end the waiter that a release of
\* the lock has woken.
FairSpec ==
    /\ Spec
    /\ \A t \in Tasks :
          /\ WF_vars(LockWake(t))
          /\ WF_vars(LinkReturn(t))
          /\ WF_vars(FaMainReturn(t))
          /\ WF_vars(ConfirmReturn(t))
          /\ WF_vars(PollReturn(t))
          /\ WF_vars(ContinueReturn(t))
          /\ WF_vars(SendReturn(t))

(***************************************************************************)
(* _picker_data_search on its own: any arguments, one call                 *)
(***************************************************************************)
InitSearch ==
    /\ _cookies = EmptySession
    /\ stored = EmptySession
    /\ default_app_key = "None" /\ default_origin = "None"
    /\ AtRest
    /\ query \in Queries
    /\ answer = NoAnswer

Resolve ==
    /\ ~answer.done
    /\ LET found == PickerDataSearch(query.receiver_name, query.picker_data,
                                     query.search_exact, query.search_from,
                                     query.search_room_type)
       IN  answer' = [done |-> TRUE, found |-> found.found, receiver |-> found.receiver]
    /\ UNCHANGED <<shared, default_app_key, default_origin, query, pc, called, jar,
                   authorized, saveArg, status, trace, result, startedValid, ncalls,
                   codes, picker_payload, picker_send, nfetch>>

NextSearch == Resolve

SpecSearch == InitSearch /\ [][NextSearch]_vars

(***************************************************************************)
(* Properties                                                              *)
(***************************************************************************)
Last(tr) == tr[Len(tr)]
Has(tr, op) == \E i \in 1..Len(tr) : tr[i] = op

\* The awaits of send() between taking and releasing the lock.
SendSteps == {"s_link", "s_fa_main", "s_confirm", "s_poll", "s_continue", "s_send"}
InSend(t) == pc[t] \in SendSteps
\* The awaits at which a picker fetch or a picker send request is under way.
PickerSteps == {"s_link", "s_continue", "s_send"}
\* What the decoding of the picker page raises by itself.
RawDecodeErrors == {"IndexError", "binascii.Error", "JSONDecodeError", "KeyError"}
\* t's init() returns normally in this step.
InitReturns(t) ==
    /\ call[t] = "init" /\ pc[t] # "idle"
    /\ pc'[t] = "idle" /\ result'[t] = "ok"

\* C1 (as claimed): a picker fetch or picker send request is under way only with a
\* session that the probe of a completed init() reported valid.
C1_OnlyValidatedSessionsSend ==
    \A t \in Tasks : pc[t] \in PickerSteps => jar[t] \in validated

\* C1 (amended): send() does not check the session; its picker requests carry the
\* session that was in memory when it made its client, so they carry a session
\* reported valid by the probe of a completed init() whenever the session in
\* memory at that moment was one.
C1_ValidatedWhenStartedValidated ==
    \A t \in Tasks : (pc[t] \in PickerSteps /\ startedValid[t]) => jar[t] \in validated

C1_Witness ==
    \E t \in Tasks : pc[t] = "s_send" /\ startedValid[t] /\ jar[t] \in validated

\* C2: at most one send() is between its picker fetch and the end of its picker
\* send, and the lock is held all that time.
C2_OneSendInFlight ==
    /\ \A t, u \in Tasks : (InSend(t) /\ InSend(u)) => t = u
    /\ \A t \in Tasks : InSend(t) => locked

C2_Witness ==
    \E t, u \in Tasks : pc[t] = "s_send" /\ pc[u] = "s_wait" /\ waiters = <<u>>

\* C3: when init() returns normally, its probe has reported VALID and the session
\* in memory is the session that probe was made with.
C3_ReturnedSessionIsValid ==
    [][\A t \in Tasks : InitReturns(t) => (authorized'[t] /\ _cookies' = jar[t])]_vars

\* C4: when the first probe reports the loaded session valid, init() returns at
\* once and the probe is the only request it has made.
C4_FastPathNoMoreRequests ==
    [][\A t \in Tasks :
         (pc[t] = "i_probe1" /\ authorized'[t]) =>
            /\ pc'[t] = "idle" /\ result'[t] = "ok"
            /\ Requests(trace'[t]) = <<"users/me">>]_vars

C4_Witness ==
    \E t \in Tasks :
        /\ call[t] = "init" /\ pc[t] = "idle" /\ result[t] = "ok" /\ authorized[t]
        /\ Requests(trace[t]) = <<"users/me">>

\* C5: get_access_token() is called only after a probe of the same init().
C5_TokenOnlyAfterProbe ==
    \A t \in Tasks : \A i \in 1..Len(trace[t]) :
        trace[t][i] = "get_access_token" => \E j \in 1..(i - 1) : trace[t][j] = "users/me"

\* C6: save() is called only by an init() whose second probe reported valid, with
\* the snapshot of the client's jar, which is then the session in memory; no
\* send() and no failing init() calls it, and nothing else writes the storage.
C6_SaveOnlyOnLogin ==
    /\ [](\A t \in Tasks :
            Has(trace[t], "save") =>
               /\ call[t] = "init" /\ authorized[t] /\ result[t] \in {"none", "ok"}
               /\ trace[t] = <<"get_access_token", "load", "users/me", "auth/tgt",
                               "e.kakao.com", "users/me", "save">>)
    /\ [][\A t \in Tasks :
            (pc[t] # "i_save" /\ pc'[t] = "i_save") =>
               (saveArg'[t] = jar[t] /\ saveArg'[t] = _cookies')]_vars
    /\ [][stored' # stored =>
            \E t \in Tasks : pc[t] = "i_save" /\ stored' = saveArg[t]]_vars

C6_Witness ==
    \E t \in Tasks :
        /\ call[t] = "init" /\ pc[t] = "idle" /\ result[t] = "ok"
        /\ Has(trace[t], "save") /\ stored # EmptySession /\ stored = _cookies

\* C7: a send() that ends at the decoding of the picker page never ends with the
\* raw error of the decoding.
C7_DecodeFailureIsSendFailure ==
    \A t \in Tasks :
        (/\ call[t] = "send" /\ pc[t] = "idle" /\ trace[t] # <<>>
         /\ Last(trace[t]) \in {"picker/link", "continue_url"})
        => result[t] \notin RawDecodeErrors

\* C8: once the picker send request is answered, send() raises the send exception
\* exactly when the status is 400, and returns on 200.
C8_SendFailsExactlyOn400 ==
    \A t \in Tasks :
        (call[t] = "send" /\ pc[t] = "idle" /\ status[t] # 0) =>
            /\ (result[t] = "KakaoLinkSendExcepetion") <=> (status[t] = 400)
            /\ status[t] = 200 => result[t] = "ok"

C8_Witness ==
    \E t, u \in Tasks :
        /\ call[t] = "send" /\ status[t] = 400 /\ result[t] = "KakaoLinkSendExcepetion"
        /\ call[u] = "send" /\ status[u] = 200 /\ result[u] = "ok"

\* C9: a picker send answer with a status outside 2xx never lets send() return.
C9_Non2xxIsAnError ==
    \A t \in Tasks :
        (call[t] = "send" /\ pc[t] = "idle" /\ status[t] # 0
         /\ status[t] \notin 200..299)
        => result[t] # "ok"

\* C10: when the ticket submission is answered with a status outside 2xx, init()
\* raises the login exception, and neither probes again nor saves.
C10_SubmitFailureIsLoginFailure ==
    \A t \in Tasks :
        (call[t] = "init" /\ status[t] # 0 /\ status[t] \notin 200..299) =>
            /\ result[t] = "KakaoLinkLoginExcepetion"
            /\ Last(trace[t]) = "e.kakao.com"

\* C11: a send() that ends once the confirmation page of the step-up flow is
\* answered, at the reading of that page, never ends with a raw error.
C11_StepUpParseFailureIs2FA ==
    \A t \in Tasks :
        (/\ call[t] = "send" /\ pc[t] = "idle" /\ trace[t] # <<>>
         /\ Last(trace[t]) = "fa/main.html")
        => result[t] \notin RawDecodeErrors

\* t calls send() in this step with no app key or no origin, the default counted in.
CallsSendUnconfigured(t) ==
    /\ pc[t] = "idle" /\ ncalls' = ncalls + 1
    /\ \A u \in Tasks \ {t} : pc'[u] = pc[u]
    /\ call'[t] = "send"
    /\ Falsy(app_key'[t]) \/ Falsy(origin'[t])

\* C12: a send() called with no app key or no origin, the default counted in,
\* raises the configuration error at once: it takes no lock, does not queue for
\* it, asks nothing of the network and leaves the session in memory as it was.
C12_ConfigErrorBeforeLock ==
    [][\A t \in Tasks :
         CallsSendUnconfigured(t) =>
            /\ pc'[t] = "idle" /\ result'[t] = "KakaoLinkException"
            /\ trace'[t] = <<>>
            /\ UNCHANGED <<_cookies, locked, waiters>>]_vars

C12_Witness ==
    \E t, u \in Tasks :
        /\ call[t] = "send" /\ pc[t] = "idle" /\ result[t] = "KakaoLinkException"
        /\ ~Falsy(app_key[t]) /\ Falsy(origin[t]) /\ trace[t] = <<>>
        /\ pc[u] = "s_send" /\ locked

\* The entries of a list.
Range(f) == { f[i] : i \in 1..Len(f) }

\* C16: the short key, the checksum, the anti-forgery token and the receiver of a
\* picker send request under way are those of one payload: the payload that this
\* send() fetched, which is the last one the server handed out and not the
\* payload of an earlier send().
C16_SendFieldsFromOwnPayload ==
    \A t \in Tasks :
        pc[t] = "s_send" =>
            /\ picker_payload[t].shortKey = <<"shortKey", nfetch>>
            /\ picker_send[t].short_key = picker_payload[t].shortKey
            /\ picker_send[t].checksum = <<"checksum", nfetch>>
            /\ picker_send[t].checksum = picker_payload[t].checksum
            /\ picker_send[t].csrf = <<"csrfToken", nfetch>>
            /\ picker_send[t].csrf = picker_payload[t].csrfToken
            /\ picker_send[t].receiver
                 \in Range(picker_payload[t].chats) \cup Range(picker_payload[t].friends)

C16_Witness ==
    \E t, u \in Tasks :
        /\ t # u /\ pc[t] = "s_send" /\ nfetch = 2
        /\ picker_send[t].checksum = <<"checksum", 2>>
        /\ call[u] = "send" /\ pc[u] = "idle" /\ status[u] = 200

\* The steps of the login chain, in the order claimed.
LoginChain == <<"users/me", "auth/tgt", "e.kakao.com", "users/me", "save">>
IsLoginStep(e) == e \in Range(LoginChain)
IsPrefix(a, b) == Len(a) <= Len(b) /\ a = SubSeq(b, 1, Len(a))

\* C17: the steps an init() has made are the first steps of the chain probe, token
\* exchange, ticket submission, probe, save, each made once; a token exchange
\* answered with a non-zero code ends init() there with the login exception; an
\* init() that fails at a step makes no step at or after its failure.
C17_LoginChainInOrder ==
    /\ [](\A t \in Tasks :
            call[t] = "init" =>
               /\ IsPrefix(SelectSeq(trace[t], IsLoginStep), LoginChain)
               /\ (codes[t] # <<>> /\ codes[t][1] # 0) =>
                     /\ pc[t] = "idle" /\ result[t] = "KakaoLinkLoginExcepetion"
                     /\ Last(trace[t]) = "auth/tgt")
    /\ [][\A t \in Tasks :
            (call[t] = "init" /\ call'[t] = "init" /\ pc'[t] = "idle"
             /\ result'[t] # "ok")
            => trace'[t] = trace[t]]_vars

C17_Witness ==
    \E t \in Tasks :
        /\ call[t] = "init" /\ pc[t] = "idle" /\ codes[t] = <<-1>>
        /\ result[t] = "KakaoLinkLoginExcepetion"
        /\ trace[t] = <<"get_access_token", "load", "users/me", "auth/tgt">>

\* The requests of a send() that goes through the step-up flow.
StepUpChain ==
    <<"picker/link", "fa/main.html", "confirm_token.json", "poll_from_service.json",
      "continue_url", "picker/send">>
\* The awaits of the step-up flow and of the continuation request.
StepUpSteps == {"s_fa_main", "s_confirm", "s_poll", "s_continue"}

\* C18: the step-up requests follow the link-validation request, in their order;
\* the continuation request is made only once the confirmation and then the poll
\* have answered status 0; a non-zero status of either ends send() with the 2FA
\* exception and without continuation request; and no payload is decoded before
\* the continuation request is answered.
C18_StepUpBeforeContinuation ==
    \A t \in Tasks :
        call[t] = "send" =>
            /\ Has(trace[t], "fa/main.html") => IsPrefix(trace[t], StepUpChain)
            /\ Has(trace[t], "continue_url") => codes[t] = <<0, 0>>
            /\ (\E i \in 1..Len(codes[t]) : codes[t][i] # 0) =>
                  /\ pc[t] = "idle" /\ result[t] = "KakaoLink2FAExcepetion"
                  /\ ~Has(trace[t], "continue_url")
                  /\ Last(trace[t]) = StepUpChain[2 + Len(codes[t])]
            /\ pc[t] \in StepUpSteps => picker_payload[t] = NoPayload
            /\ (pc[t] = "s_send" /\ Has(trace[t], "continue_url")) =>
                  /\ trace[t] = StepUpChain
                  /\ picker_payload[t].shortKey = <<"shortKey", nfetch>>

C18_Witness ==
    \E t \in Tasks :
        /\ pc[t] = "s_send" /\ trace[t] = StepUpChain /\ codes[t] = <<0, 0>>
        /\ picker_payload[t] # NoPayload

\* C19: a send() makes the picker send request at most once, as its last request,
\* after the fetch has decoded a payload and the search has found a receiver in
\* it; a send() that ends before that, at the fetch, in the step-up flow or at
\* the search, has made no picker send request.
C19_SendOnceAfterFetchAndSearch ==
    /\ [](\A t \in Tasks :
            call[t] = "send" =>
               /\ Has(trace[t], "picker/send") =>
                     trace[t] \in {<<"picker/link", "picker/send">>, StepUpChain}
               /\ pc[t] = "s_send" =>
                     /\ Has(trace[t], "picker/send")
                     /\ picker_payload[t] # NoPayload
                     /\ picker_send[t].receiver # NoReceiver
                     /\ picker_send[t].receiver
                          \in Range(picker_payload[t].chats)
                              \cup Range(picker_payload[t].friends)
               /\ result[t] \in {"KakaoLink2FAExcepetion",
                                  "KakaoLinkReceiverNotFoundExcepetion"}
                                 \cup RawDecodeErrors
                     => ~Has(trace[t], "picker/send"))
    /\ [][\A t \in Tasks :
            (pc[t] \in {"s_wait"} \cup (SendSteps \ {"s_send"}) /\ pc'[t] = "idle")
            => ~Has(trace'[t], "picker/send")]_vars

C19_Witness ==
    \E t, u \in Tasks :
        /\ call[t] = "send" /\ pc[t] = "idle" /\ trace[t] = <<"picker/link">>
        /\ result[t] = "KakaoLinkReceiverNotFoundExcepetion"
        /\ pc[u] = "s_send" /\ trace[u] = <<"picker/link", "picker/send">>

\* C20: the lock is held only while a send() is between taking it and its end,
\* however that send() ends; and, every request being answered in the end, a
\* send() that waits for the lock does not wait for ever, and stops waiting only
\* by taking the lock.
C20_LockReleasedAndWaitersServed ==
    /\ [](locked => \E t \in Tasks : InSend(t))
    /\ \A t \in Tasks : []<>(pc[t] # "s_wait")
    /\ [][\A t \in Tasks :
            (pc[t] = "s_wait" /\ pc'[t] # "s_wait") => (pc'[t] = "s_link" /\ locked')]_vars

C20_Witness ==
    \E t, u \in Tasks :
        /\ pc[t] = "s_wait" /\ waiters = <<t>> /\ ~locked
        /\ call[u] = "send" /\ pc[u] = "idle"
        /\ result[u] = "KakaoLinkReceiverNotFoundExcepetion"

(***************************************************************************)
(* Properties of _picker_data_search (under SpecSearch)                    *)
(***************************************************************************)
\* The chats, when asked for, followed by the friends, when asked for.
QueryList ==
    (IF query.search_from \in {"ALL", "CHATROOMS"} THEN query.picker_data.chats ELSE <<>>)
    \o (IF query.search_from \in {"ALL", "FRIENDS"} THEN query.picker_data.friends
        ELSE <<>>)
Least(S) == CHOOSE i \in S : \A j \in S : i <= j
\* The answer is the first entry of QueryList whose index is in hits, and
\* not-found when there is none.
AnswerIsFirstOf(hits) ==
    IF hits = {} THEN ~answer.found
    ELSE answer.found /\ answer.receiver = QueryList[Least(hits)]

\* C13: the search answers with the first record, chats before friends and each
\* list only when asked for, that passes the room-type filter and the title
\* match; it finds nothing exactly when no record passes.
C13_FirstMatchInFixedOrder ==
    answer.done =>
        AnswerIsFirstOf({ i \in 1..Len(QueryList) :
            /\ ~SkippedByRoomType(QueryList[i], query.search_room_type)
            /\ TitleMatches(QueryList[i], query.receiver_name, query.search_exact) })

C13_Witness ==
    /\ answer.done /\ answer.found /\ query.search_from = "ALL"
    /\ Len(query.picker_data.chats) = 2 /\ Len(query.picker_data.friends) = 2
    /\ answer.receiver = query.picker_data.friends[2]
    /\ answer.receiver # query.picker_data.friends[1]

\* `name` occurs in `title`
Contains(title, name) ==
    \E i \in 1..(Len(title) + 1), j \in 0..Len(title) : SubSeq(title, i, j) = name
\* The title of a record as claimed: the title entry when there is one.
TitleIfPresent(r) ==
    IF "title" \in r.keys THEN r.title
    ELSE IF "profile_nickname" \in r.keys THEN r.profile_nickname
    ELSE <<>>
\* The title of a record: the title entry when there is one and it is not empty.
TitleIfNotEmpty(r) ==
    IF "title" \in r.keys /\ r.title # <<>> THEN r.title
    ELSE IF "profile_nickname" \in r.keys THEN r.profile_nickname
    ELSE <<>>
\* The answer is the first record, among those the room-type rule keeps, whose
\* title under Title equals the name (exact) or contains it (not exact).
AnswerMatchesBy(Title(_)) ==
    answer.done =>
        AnswerIsFirstOf({ i \in 1..Len(QueryList) :
            /\ ~SkippedByRoomType(QueryList[i], query.search_room_type)
            /\ IF query.search_exact THEN Title(QueryList[i]) = query.receiver_name
               ELSE Contains(Title(QueryList[i]), query.receiver_name) })

\* C14 (as claimed): the title of a record is its title entry if present, else its
\* nickname, else empty; an exact search answers only with a record whose title
\* equals the name, another search with the first record whose title contains it.
C14_TitleIfPresentMatches == AnswerMatchesBy(TitleIfPresent)

\* C14 (amended): the same, the title of a record being its title entry if
\* present and not empty, else its nickname, else empty.
C14_TitleIfNotEmptyMatches == AnswerMatchesBy(TitleIfNotEmpty)

C14_Witness ==
    /\ answer.done /\ answer.found /\ query.search_exact
    /\ {"title", "profile_nickname"} \subseteq answer.receiver.keys
    /\ answer.receiver.title = <<>>
    /\ answer.receiver.profile_nickname = query.receiver_name

\* A record carries a room type, the room type asked for is not ALL, and the two differ.
TaggedOtherwise(r) ==
    /\ "chat_room_type" \in r.keys /\ r.chat_room_type # ""
    /\ query.search_room_type # "ALL"
    /\ r.chat_room_type # query.search_room_type

====
